---------------------------- MODULE Spec2Model ----------------------------
(***************************************************************************)
(* Model of the hfs HTTP file server (src-tauri/src/http.rs): the path     *)
(* resolver, the browse / download / zip handlers and the archive producer *)
(* task that writes into a bounded in-memory pipe.                         *)
(*                                                                         *)
(* Strings are sequences of one-character strings, so that trimming,       *)
(* prefix tests and slicing are computed on characters as the code does.   *)
(* std::path operations (components, file_name, parent, join,              *)
(* strip_prefix) are modelled with their Unix semantics.                   *)
(***************************************************************************)
EXTENDS Integers, Sequences, FiniteSets, TLC

(***************************************************************************)
(* Bounds of the model.                                                    *)
(***************************************************************************)
\* longest request path, counted in "/"-separated segments
MaxSegs == 3
\* longest shared-root list
MaxRoots == 2
\* longest selection list of a zip/selection request
MaxSel == 2
\* longest path of a selection list, counted in "/"-separated segments
MaxSelSegs == 2

(***************************************************************************)
(* Option values (Rust Option<T>).                                         *)
(***************************************************************************)
None == [some |-> FALSE, val |-> <<>>]

Some(x) == [some |-> TRUE, val |-> x]

(***************************************************************************)
(* Character strings.                                                      *)
(***************************************************************************)
SLASH == "/"

DOT == "."

Last(s) == s[Len(s)]

Front(s) == SubSeq(s, 1, Len(s) - 1)

\* s[n..] with 0-based n, as the Rust slice &s[n..]
SliceFrom(s, n) == SubSeq(s, n + 1, Len(s))

\* str::starts_with
StartsWith(s, p) == Len(p) <= Len(s) /\ SubSeq(s, 1, Len(p)) = p

RECURSIVE TrimLeft(_)
TrimLeft(s) == IF s # <<>> /\ Head(s) = SLASH THEN TrimLeft(Tail(s)) ELSE s

RECURSIVE TrimRight(_)
TrimRight(s) == IF s # <<>> /\ Last(s) = SLASH THEN TrimRight(Front(s)) ELSE s

\* str::trim_matches('/')
TrimMatches(s) == TrimRight(TrimLeft(s))

\* str::contains("..")
ContainsDotDot(s) == \E i \in 1..(Len(s) - 1) : s[i] = DOT /\ s[i + 1] = DOT

\* s.split('/'): always at least one (possibly empty) segment
RECURSIVE SplitAcc(_, _, _)
SplitAcc(s, cur, acc) ==
    IF s = <<>> THEN Append(acc, cur)
    ELSE IF Head(s) = SLASH THEN SplitAcc(Tail(s), <<>>, Append(acc, cur))
    ELSE SplitAcc(Tail(s), Append(cur, Head(s)), acc)

Split(s) == SplitAcc(s, <<>>, <<>>)

\* segments joined with "/"
RECURSIVE JoinSegs(_)
JoinSegs(segs) ==
    IF segs = <<>> THEN <<>>
    ELSE IF Len(segs) = 1 THEN segs[1]
    ELSE segs[1] \o <<SLASH>> \o JoinSegs(Tail(segs))

(***************************************************************************)
(* std::path on Unix.  A path is a character string; its components are    *)
(* computed as Path::components does: a leading "/" is the root component, *)
(* empty segments and "." segments are normalised away (a leading "." of a *)
(* relative path is kept), ".." is kept.                                   *)
(***************************************************************************)
RootDir == <<SLASH>>

CurDir == <<DOT>>

ParentDir == <<DOT, DOT>>

\* Path::is_absolute
IsAbsolute(s) == s # <<>> /\ s[1] = SLASH

\* the "/"-separated segments after the root, unnormalised
BodySegs(s) == IF IsAbsolute(s) THEN Split(Tail(s)) ELSE Split(s)

Skippable(seg) == seg = <<>> \/ seg = CurDir

\* Path::components
Components(s) ==
    LET segs == BodySegs(s)
        head == IF IsAbsolute(s) THEN <<RootDir>>
                ELSE IF segs[1] = CurDir THEN <<CurDir>>
                ELSE <<>>
    IN  head \o SelectSeq(segs, LAMBDA g : ~Skippable(g))

\* Path::file_name: the final component when it is a normal one
FileName(s) ==
    LET comps == Components(s)
    IN  IF comps = <<>> THEN None
        ELSE IF Last(comps) \in {RootDir, CurDir, ParentDir} THEN None
        ELSE Some(Last(comps))

\* Path::join (PathBuf::push): an absolute argument replaces the path
Join(base, rest) ==
    IF IsAbsolute(rest) THEN rest
    ELSE IF base = <<>> THEN rest
    ELSE IF Last(base) = SLASH THEN base \o rest
    ELSE base \o <<SLASH>> \o rest

\* drop the trailing segments that Components skips
RECURSIVE TrimTrailSkip(_, _)
TrimTrailSkip(segs, abs) ==
    IF segs # <<>> /\ (Last(segs) = <<>>
                       \/ (Last(segs) = CurDir /\ (abs \/ Len(segs) > 1)))
    THEN TrimTrailSkip(Front(segs), abs)
    ELSE segs

\* Path::parent: the path without its final component, None for the root
Parent(s) ==
    LET comps == Components(s)
        abs == IsAbsolute(s)
        kept == TrimTrailSkip(Front(TrimTrailSkip(BodySegs(s), abs)), abs)
    IN  IF comps = <<>> \/ Last(comps) = RootDir THEN None
        ELSE Some((IF abs THEN <<SLASH>> ELSE <<>>) \o JoinSegs(kept))

\* the segments left after the first n components were consumed
RECURSIVE DropComps(_, _)
DropComps(segs, n) ==
    IF segs = <<>> THEN <<>>
    ELSE IF Skippable(Head(segs)) THEN DropComps(Tail(segs), n)
    ELSE IF n = 0 THEN segs
    ELSE DropComps(Tail(segs), n - 1)

IsPrefixSeq(p, s) == Len(p) <= Len(s) /\ SubSeq(s, 1, Len(p)) = p

\* Path::strip_prefix: component-wise; Ok carries the rest of the string
StripPrefix(path, base) ==
    LET pc == Components(path)
        bc == Components(base)
        n == Len(bc) - (IF IsAbsolute(base) THEN 1 ELSE 0)
    IN  IF ~IsPrefixSeq(bc, pc) THEN None
        ELSE IF bc = <<>> THEN Some(path)
        ELSE Some(JoinSegs(TrimTrailSkip(DropComps(BodySegs(path), n), TRUE)))

(***************************************************************************)
(* resolve_path (http.rs 66-83).  PathBuf::from and to_string_lossy keep   *)
(* the characters of a valid string; `file_name()?` leaves the function    *)
(* with None as soon as an item has no final normal component.             *)
(***************************************************************************)
\* resolve_path's loop with the prefix test written without the "/"
RECURSIVE ResolveFromNoSlash(_, _, _)
ResolveFromNoSlash(shared_items, relative_path, i) ==
    IF i > Len(shared_items) THEN None
    ELSE LET item_path == shared_items[i]
             nm == FileName(item_path)
         IN  IF ~nm.some THEN None
             ELSE LET item_name == nm.val
                  IN  IF relative_path = item_name THEN Some(item_path)
                      ELSE IF StartsWith(relative_path, item_name)
                      THEN Some(Join(item_path,
                                     SliceFrom(relative_path, Len(item_name) + 1)))
                      ELSE ResolveFromNoSlash(shared_items, relative_path, i + 1)

RECURSIVE ResolveFrom(_, _, _)
ResolveFrom(shared_items, relative_path, i) ==
    IF i > Len(shared_items) THEN None
    ELSE LET item_path == shared_items[i]
             nm == FileName(item_path)
         IN  IF ~nm.some THEN None
             ELSE LET item_name == nm.val
                  IN  IF relative_path = item_name THEN Some(item_path)
                      ELSE IF StartsWith(relative_path, item_name \o <<SLASH>>)
                      THEN Some(Join(item_path,
                                     SliceFrom(relative_path, Len(item_name) + 1)))
                      ELSE ResolveFrom(shared_items, relative_path, i + 1)

resolve_path(shared_items, relative_path) ==
    LET trimmed == TrimMatches(relative_path)
    IN  IF trimmed = <<>> THEN None ELSE ResolveFrom(shared_items, trimmed, 1)

(***************************************************************************)
(* The filesystem the server runs on: a fixed tree.  A node is the         *)
(* sequence of names from the root; names are character strings.           *)
(*                                                                         *)
(*   /a                 file with the share name of the two directories    *)
(*   /b                 file, outside every shared root                    *)
(*   /s/a               directory   /s/a/b   /s/a/..b   /s/a/a/b   files   *)
(*   /s/b               file                                               *)
(*   /t/a               directory   /t/a/ab  file                          *)
(*                                  /t/a/b   file that cannot be opened    *)
(*                                  /t/a/a   directory that cannot be read *)
(*                                  /t/a/a/b file                          *)
(***************************************************************************)
nmA == <<"a">>

nmB == <<"b">>

nmS == <<"s">>

nmT == <<"t">>

nmAB == <<"a", "b">>

nmDotDotB == <<".", ".", "b">>

FsDirs ==
    { <<>>, <<nmS>>, <<nmS, nmA>>, <<nmS, nmA, nmA>>,
      <<nmT>>, <<nmT, nmA>>, <<nmT, nmA, nmA>> }

FsFiles ==
    { <<nmA>>, <<nmB>>, <<nmS, nmA, nmB>>, <<nmS, nmA, nmDotDotB>>,
      <<nmS, nmA, nmA, nmB>>, <<nmS, nmB>>, <<nmT, nmA, nmAB>>, <<nmT, nmA, nmB>>,
      <<nmT, nmA, nmA, nmB>> }

FsNodes == FsDirs \cup FsFiles

\* directories whose read_dir fails (permission denied)
FsUnreadable == { <<nmT, nmA, nmA>> }

\* files whose open fails (permission denied)
FsUnopenable == { <<nmT, nmA, nmB>> }

\* path lookup as the kernel does it: ".." goes to the parent directory,
\* every intermediate component has to be a directory
RECURSIVE FsWalk(_, _)
FsWalk(comps, cur) ==
    IF comps = <<>> THEN (IF cur \in FsNodes THEN Some(cur) ELSE None)
    ELSE IF cur \notin FsDirs THEN None
    ELSE IF Head(comps) = ParentDir
         THEN FsWalk(Tail(comps), IF cur = <<>> THEN cur ELSE Front(cur))
         ELSE FsWalk(Tail(comps), Append(cur, Head(comps)))

\* the node a path string names, None when there is none
FsLookup(path) ==
    IF ~IsAbsolute(path) THEN None ELSE FsWalk(Tail(Components(path)), <<>>)

\* Path::exists, Path::is_dir, Path::is_file
PathExists(path) == FsLookup(path).some

PathIsDir(path) == FsLookup(path).some /\ FsLookup(path).val \in FsDirs

PathIsFile(path) == FsLookup(path).some /\ FsLookup(path).val \in FsFiles

\* File::open succeeding on every file, whatever its permissions
CanOpenAll(path) == FsLookup(path).some

\* File::open succeeds (a directory opens too; the download handler has
\* excluded directories before it opens)
CanOpen(path) == FsLookup(path).some /\ FsLookup(path).val \notin FsUnopenable

\* read_dir succeeding on every directory, whatever its permissions
CanReadDirAnyDir(path) == PathIsDir(path)

\* tokio::fs::read_dir succeeds
CanReadDir(path) == PathIsDir(path) /\ FsLookup(path).val \notin FsUnreadable

\* the names of the children of a directory node
ChildNames(node) ==
    { n[Len(n)] : n \in { m \in FsNodes : Len(m) = Len(node) + 1
                                          /\ SubSeq(m, 1, Len(node)) = node } }

\* DirEntry::path of every entry read_dir yields: the directory path as
\* given, joined with the entry's name
DirEntryPaths(path) == { Join(path, n) : n \in ChildNames(FsLookup(path).val) }

(***************************************************************************)
(* Inputs.                                                                 *)
(***************************************************************************)
\* the segments request paths are built from
Segs == { <<>>, <<".">>, <<".", ".">>, nmA, nmB, nmAB, nmDotDotB }

\* every request path of at most MaxSegs segments (the empty path included)
Paths == { JoinSegs(q) : q \in UNION { [1..n -> Segs] : n \in 1..MaxSegs } }

\* the paths a selection list is made of
SelPaths == { JoinSegs(q) : q \in UNION { [1..n -> Segs] : n \in 1..MaxSelSegs } }

\* the shared roots a user may configure: two directories with the same
\* final component, a single file, and the filesystem root
RootChoices ==
    { <<"/", "s", "/", "a">>, <<"/", "t", "/", "a">>,
      <<"/", "s", "/", "b">>, <<"/">> }

RootLists == UNION { [1..n -> RootChoices] : n \in 0..MaxRoots }

\* the optional `path` query parameter of a browse request
BrowseQueries == {None} \cup { Some(p) : p \in Paths }

\* pipe capacity: the buffer of duplex(64 * 1024), counted in archive
\* records instead of bytes
PipeCap == 2

(***************************************************************************)
(* State.                                                                  *)
(***************************************************************************)
VARIABLES
    shared_folders,   \* AppState.shared_folders: the configured shared roots
    req,              \* the request in flight: [kind, path]
    resp,             \* the handler's answer: [status, body]; status 0: none yet
    real_path,        \* the handler's resolve_path result (file_path, target_path)
    fsops,            \* filesystem operations the handler performed, in order
    entries,          \* the entry list browse_handler returns
    pipe,             \* the duplex pipe: [buf, reader, writer]
    received,         \* what the response consumer has read from the pipe
    task,             \* the spawned archive producer task
    open_files,       \* the file handles the producer task holds
    conc,             \* requests served side by side: for each of them its
                      \* request, its producer task, its pipe and what its
                      \* consumer has read
    svc,              \* the desktop side (lib.rs): ServiceState.shutdown_tx and
                      \* the server tasks start_server_cmd has created
    ghost             \* history kept for the properties, not read by the code:
                      \* wfail: a pipe write has failed; written: the number
                      \* of records the pipe has accepted; expect, clean,
                      \* allbad, reach, dirsel: what the selection's paths
                      \* call for; popped, visited: the directories popped
                      \* and the files met by the traversal under way;
                      \* twice: one of them came up a second time

vars ==
    << shared_folders, req, resp, real_path, fsops, entries, pipe, received,
       task, open_files, ghost, conc, svc >>

NoReq == [kind |-> "none", path |-> <<>>]

NoResp == [status |-> 0, body |-> "none"]

NoPipe == [buf |-> <<>>, reader |-> "none", writer |-> "none"]

NoTask ==
    [ pc |-> "none", form |-> "none", stack |-> <<>>, dir |-> {}, cur |-> <<>>,
      name |-> <<>>, parent_path |-> <<>>, full_path |-> <<>>, rel_path |-> <<>>,
      ret |-> "none", left |-> 0, shared |-> <<>>, reads |-> 0, opens |-> 0 ]

NoGhost ==
    [ wfail |-> FALSE, expect |-> <<>>, clean |-> TRUE, allbad |-> TRUE,
      written |-> 0, reach |-> <<>>, dirsel |-> TRUE,
      popped |-> {}, visited |-> {}, twice |-> FALSE ]

\* the number of requests served side by side
MaxJobs == 2

JobIds == 1..MaxJobs

NoConc ==
    [ req |-> [j \in JobIds |-> NoReq], task |-> [j \in JobIds |-> NoTask],
      pipe |-> [j \in JobIds |-> NoPipe], received |-> [j \in JobIds |-> <<>>] ]

\* the number of server tasks start_server_cmd creates in a run, the ports
\* and the shared-root lists it is called with, the connections a server
\* has open at a time
MaxServers == 3

ServerIds == 1..MaxServers

Ports == { 8080, 8081 }

ServiceRootLists == { << <<SLASH, "s", SLASH, "a">> >>, << <<SLASH, "t", SLASH, "a">> >> }

MaxConns == 1

\* the number of server tasks in the runs that are followed to their end
MaxFairServers == 2

\* broadcast::channel(1) as one server task sees it: a signal is buffered
\* for its receiver; the sender is still held by the service state
NewChannel == [msg |-> FALSE, open |-> TRUE]

\* a server task: st is where it stands in start_server; sent, early and
\* restart are history kept for the properties (a shutdown signal was sent
\* to it; it was sent before the task served; the task was created while
\* another server was listening)
NoServer ==
    [ st |-> "none", port |-> 0, shared_folders |-> <<>>, chan |-> NewChannel,
      conns |-> 0, sent |-> FALSE, early |-> FALSE, restart |-> FALSE ]

\* .manage(ServiceState { shutdown_tx: Mutex::new(None) }): 0 stands for
\* None, i for Some(the sender of server task i); n counts the server
\* tasks created; last is the command that returned last and its result,
\* seq changing with every return
NoSvc ==
    [ shutdown_tx |-> 0, n |-> 0, inst |-> [i \in ServerIds |-> NoServer],
      last |-> [cmd |-> "none", ret |-> "none", seq |-> 0] ]

\* no request in flight
Idle ==
    /\ req = NoReq
    /\ resp = NoResp
    /\ real_path = None
    /\ fsops = <<>>
    /\ entries = <<>>
    /\ pipe = NoPipe
    /\ received = <<>>
    /\ task = NoTask
    /\ open_files = {}
    /\ ghost = NoGhost
    /\ conc = NoConc
    /\ svc = NoSvc

\* the server was started with some list of shared roots (start_server)
Init == shared_folders \in RootLists /\ Idle

\* one filesystem operation; `locked` tells whether the shared_folders mutex
\* guard was alive when it ran
FsOp(o, p, l) == [op |-> o, path |-> p, locked |-> l]

(***************************************************************************)
(* file_handler (http.rs 166-195).                                         *)
(***************************************************************************)
\* the `..` test looking at the start of the path only
IsTraversalLeading(path) == StartsWith(path, ParentDir)

\* the `..` test left out
IsTraversalNever(path) == FALSE

\* the `..` test the handlers start with: path.contains("..")
IsTraversal(path) == ContainsDotDot(path)

FileHandlerResult(folders, path) ==
    IF IsTraversal(path)
    THEN [status |-> 403, body |-> "none", real_path |-> None, fsops |-> <<>>]
    ELSE LET file_path == resolve_path(folders, path)
         IN  IF ~file_path.some
             THEN [status |-> 404, body |-> "none", real_path |-> None,
                   fsops |-> <<>>]
             ELSE LET fp == file_path.val
                      ex == FsOp("exists", fp, FALSE)
                      isd == FsOp("is_dir", fp, FALSE)
                      opn == FsOp("open", fp, FALSE)
                  IN  IF ~PathExists(fp)
                      THEN [status |-> 404, body |-> "none",
                            real_path |-> file_path, fsops |-> <<ex>>]
                      ELSE IF PathIsDir(fp)
                      THEN [status |-> 404, body |-> "none",
                            real_path |-> file_path, fsops |-> <<ex, isd>>]
                      ELSE IF ~CanOpen(fp)
                      THEN [status |-> 500, body |-> "none",
                            real_path |-> file_path, fsops |-> <<ex, isd, opn>>]
                      ELSE [status |-> 200, body |-> "file",
                            real_path |-> file_path, fsops |-> <<ex, isd, opn>>]

file_handler ==
    /\ Idle
    /\ \E path \in Paths :
         LET r == FileHandlerResult(shared_folders, path)
         IN  /\ req' = [kind |-> "file", path |-> path]
             /\ resp' = [status |-> r.status, body |-> r.body]
             /\ real_path' = r.real_path
             /\ fsops' = r.fsops
    /\ UNCHANGED << shared_folders, conc, svc, entries, pipe, received, task, open_files,
                    ghost >>

(***************************************************************************)
(* zip_folder_handler (http.rs 201-268): the checks, the pipe and the      *)
(* spawn.  The spawned task is the producer below.                         *)
(***************************************************************************)
\* the folder-zip checks without the is_dir test
ZipFolderResultNoDirTest(folders, path) ==
    IF IsTraversal(path)
    THEN [status |-> 403, real_path |-> None, fsops |-> <<>>]
    ELSE LET target_path == resolve_path(folders, path)
         IN  IF ~target_path.some
             THEN [status |-> 404, real_path |-> None, fsops |-> <<>>]
             ELSE IF ~PathExists(target_path.val)
             THEN [status |-> 404, real_path |-> target_path,
                   fsops |-> << FsOp("exists", target_path.val, FALSE) >>]
             ELSE [status |-> 200, real_path |-> target_path,
                   fsops |-> << FsOp("exists", target_path.val, FALSE) >>]

ZipFolderResult(folders, path) ==
    IF IsTraversal(path)
    THEN [status |-> 403, real_path |-> None, fsops |-> <<>>]
    ELSE LET target_path == resolve_path(folders, path)
         IN  IF ~target_path.some
             THEN [status |-> 404, real_path |-> None, fsops |-> <<>>]
             ELSE LET tp == target_path.val
                      ex == FsOp("exists", tp, FALSE)
                      isd == FsOp("is_dir", tp, FALSE)
                  IN  IF ~PathExists(tp)
                      THEN [status |-> 404, real_path |-> target_path,
                            fsops |-> <<ex>>]
                      ELSE IF ~PathIsDir(tp)
                      THEN [status |-> 404, real_path |-> target_path,
                            fsops |-> <<ex, isd>>]
                      ELSE [status |-> 200, real_path |-> target_path,
                            fsops |-> <<ex, isd>>]

\* target_path.parent().unwrap_or(&target_path)
ParentOrSelf(path) == IF Parent(path).some THEN Parent(path).val ELSE path

\* duplex(64 * 1024): both ends open, nothing buffered
NewPipe == [buf |-> <<>>, reader |-> "open", writer |-> "open"]

zip_folder_handler ==
    /\ Idle
    /\ \E path \in Paths :
         LET r == ZipFolderResult(shared_folders, path)
         IN  /\ req' = [kind |-> "zip_folder", path |-> path]
             /\ real_path' = r.real_path
             /\ fsops' = r.fsops
             /\ IF r.status = 200
                THEN /\ resp' = [status |-> 200, body |-> "pipe"]
                     /\ pipe' = NewPipe
                     /\ task' = [NoTask EXCEPT
                                   !.pc = "pop", !.form = "folder",
                                   !.stack = <<r.real_path.val>>,
                                   !.parent_path = ParentOrSelf(r.real_path.val),
                                   !.ret = "next"]
                ELSE /\ resp' = [status |-> r.status, body |-> "none"]
                     /\ UNCHANGED << pipe, task >>
    /\ UNCHANGED << shared_folders, conc, svc, entries, received, open_files, ghost >>

(***************************************************************************)
(* zip_selection_handler (http.rs 275-357): pipe, clone of the shared      *)
(* roots under the lock, spawn.  The handler never looks at the requested  *)
(* paths; the task takes them one by one from payload.files, so the model  *)
(* draws each path when the loop reaches it and keeps their number.        *)
(***************************************************************************)
zip_selection_handler ==
    /\ Idle
    /\ \E n \in 0..MaxSel :
         /\ req' = [kind |-> "zip_selection", path |-> <<>>]
         /\ task' = [NoTask EXCEPT !.pc = "item", !.form = "selection",
                                   !.left = n, !.shared = shared_folders,
                                   !.ret = "item"]
    /\ resp' = [status |-> 200, body |-> "pipe"]
    /\ pipe' = NewPipe
    /\ UNCHANGED << shared_folders, conc, svc, real_path, fsops, entries, received,
                    open_files, ghost >>

(***************************************************************************)
(* What the properties compare the archive with, computed from the         *)
(* filesystem tree and not by the traversal.                               *)
(***************************************************************************)
\* the path has a ".." segment
HasDotDotSegment(path) == \E i \in 1..Len(Split(path)) : Split(path)[i] = ParentDir

\* the nodes below a directory node, the directory itself excluded
Below(node) ==
    { m \in FsNodes : Len(m) > Len(node) /\ SubSeq(m, 1, Len(node)) = node }

FilesBelow(node) == Below(node) \cap FsFiles

\* every directory of the subtree can be read, every file opened
SubtreeReadable(node) ==
    /\ ({node} \cup Below(node)) \cap FsUnreadable = {}
    /\ Below(node) \cap FsUnopenable = {}

RECURSIVE SetToSeq(_)
SetToSeq(S) ==
    IF S = {} THEN <<>>
    ELSE LET x == CHOOSE y \in S : TRUE IN <<x>> \o SetToSeq(S \ {x})

\* the member names a selected directory is expected to contribute:
\* requested string, "/", file path relative to the selected directory
ExpectedDirNames(rel_path, node) ==
    SetToSeq({ rel_path \o <<SLASH>> \o JoinSegs(SubSeq(f, Len(node) + 1, Len(f))) :
               f \in FilesBelow(node) })

\* the names one requested path is expected to contribute
ExpectedNames(folders, rel_path) ==
    LET fp == resolve_path(folders, rel_path)
    IN  IF HasDotDotSegment(rel_path) \/ ~fp.some THEN <<>>
        ELSE IF PathIsFile(fp.val) THEN <<rel_path>>
        ELSE IF PathIsDir(fp.val)
        THEN ExpectedDirNames(rel_path, FsLookup(fp.val).val)
        ELSE <<>>

\* the requested path is one the selection is to skip
BadItem(folders, rel_path) ==
    LET fp == resolve_path(folders, rel_path)
    IN  \/ ContainsDotDot(rel_path)
        \/ ~fp.some
        \/ ~PathIsFile(fp.val) /\ ~PathIsDir(fp.val)

\* everything the requested path reaches can be read
ItemReadable(folders, rel_path) ==
    LET fp == resolve_path(folders, rel_path)
    IN  IF ~fp.some \/ ~PathExists(fp.val) THEN TRUE
        ELSE IF PathIsFile(fp.val) THEN CanOpen(fp.val)
        ELSE SubtreeReadable(FsLookup(fp.val).val)

\* the files below a directory node that a traversal starting there can
\* deliver: the file can be opened and every directory on the way to it,
\* the start included, can be read
ReachFiles(node) ==
    { f \in FilesBelow(node) :
        /\ f \notin FsUnopenable
        /\ \A n \in Len(node)..(Len(f) - 1) : SubSeq(f, 1, n) \notin FsUnreadable }

\* the member names a selected directory contributes in spite of failures
ReachDirNames(rel_path, node) ==
    SetToSeq({ rel_path \o <<SLASH>> \o JoinSegs(SubSeq(f, Len(node) + 1, Len(f))) :
               f \in ReachFiles(node) })

\* the requested path selects a directory
DirItem(folders, rel_path) ==
    LET fp == resolve_path(folders, rel_path)
    IN  ~HasDotDotSegment(rel_path) /\ fp.some /\ PathIsDir(fp.val)

\* the requested path selects a regular file
FileItem(folders, rel_path) ==
    LET fp == resolve_path(folders, rel_path)
    IN  fp.some /\ PathIsFile(fp.val)

\* the names the traversal of one requested path is to deliver
ReachNames(folders, rel_path) ==
    IF DirItem(folders, rel_path)
    THEN ReachDirNames(rel_path,
                       FsLookup(resolve_path(folders, rel_path).val).val)
    ELSE <<>>

(***************************************************************************)
(* The archive producer task (http.rs 227-259 and 285-350).                *)
(* One record of the pipe stands for one write of the ZIP writer: the      *)
(* local header of an entry, its data, the central directory.              *)
(***************************************************************************)
\* folder form with the entry named by its file name alone
FolderEntryNameFlat(path, parent_path) == FileName(path).val

\* folder form: the entry's path relative to the target's parent
FolderEntryName(path, parent_path) ==
    LET r == StripPrefix(path, parent_path)
    IN  IF r.some THEN r.val ELSE path

\* selection form with the entry named relative to the selected directory
SelectionEntryNameBare(rel_path, path, full_path) ==
    LET r == StripPrefix(path, full_path)
    IN  IF r.some THEN r.val ELSE path

\* selection form: format!("{}/{}", rel_path, sub_rel)
SelectionEntryName(rel_path, path, full_path) ==
    LET r == StripPrefix(path, full_path)
    IN  rel_path \o <<SLASH>> \o (IF r.some THEN r.val ELSE path)

EntryName(t, path) ==
    IF t.form = "folder" THEN FolderEntryName(path, t.parent_path)
    ELSE SelectionEntryName(t.rel_path, path, t.full_path)

\* a write on the pipe fails once the read end is gone
WriteFails == pipe.reader = "dropped"

\* a pipe that takes every write, however much is buffered
WriteFitsUnbounded == pipe.reader # "dropped"

\* a write on the pipe goes through when there is room
WriteFits == pipe.reader # "dropped" /\ Len(pipe.buf) < PipeCap

\* `for rel_path in payload.files`: take the next requested path
SelItem ==
    /\ task.pc = "item"
    /\ IF task.left = 0
       THEN /\ task' = [task EXCEPT !.pc = "close"]
            /\ UNCHANGED << open_files, ghost >>
       ELSE \E rel_path \in SelPaths :
              LET fp == resolve_path(task.shared, rel_path)
                  t == [task EXCEPT !.left = @ - 1, !.rel_path = rel_path]
                  walk == /\ ~IsTraversal(rel_path)
                          /\ fp.some
                          /\ ~PathIsFile(fp.val)
                          /\ PathIsDir(fp.val)
              IN  /\ ghost' = [ghost EXCEPT
                        !.popped = IF walk THEN {} ELSE @,
                        !.visited = IF walk THEN {} ELSE @,
                        !.expect = @ \o ExpectedNames(task.shared, rel_path),
                        !.clean = @ /\ ItemReadable(task.shared, rel_path),
                        !.allbad = @ /\ BadItem(task.shared, rel_path),
                        !.reach = @ \o ReachNames(task.shared, rel_path),
                        !.dirsel = @ /\ ~FileItem(task.shared, rel_path)]
                  /\ IF IsTraversal(rel_path) \/ ~fp.some
                     THEN task' = t /\ UNCHANGED open_files
                     ELSE IF PathIsFile(fp.val)
                     THEN IF CanOpen(fp.val)
                          THEN /\ task' = [t EXCEPT !.pc = "header",
                                                    !.cur = fp.val,
                                                    !.name = rel_path,
                                                    !.ret = "item",
                                                    !.opens = @ + 1]
                               /\ open_files' = open_files \cup {fp.val}
                          ELSE /\ task' = [t EXCEPT !.opens = @ + 1]
                               /\ UNCHANGED open_files
                     ELSE IF PathIsDir(fp.val)
                     THEN /\ task' = [t EXCEPT !.pc = "pop",
                                               !.full_path = fp.val,
                                               !.parent_path = ParentOrSelf(fp.val),
                                               !.stack = <<fp.val>>,
                                               !.ret = "next"]
                          /\ UNCHANGED open_files
                     ELSE task' = t /\ UNCHANGED open_files
    /\ UNCHANGED << shared_folders, conc, svc, req, resp, real_path, fsops, entries, pipe,
                    received >>

\* `while let Some(current_dir) = stack.pop()` with its read_dir
PopDir ==
    /\ task.pc = "pop"
    /\ IF task.stack = <<>>
       THEN /\ task' = [task EXCEPT
                         !.pc = IF task.form = "folder" THEN "close" ELSE "item"]
            /\ UNCHANGED ghost
       ELSE LET current_dir == Last(task.stack)
                t == [task EXCEPT !.stack = Front(@), !.reads = @ + 1]
            IN  /\ ghost' = [ghost EXCEPT
                      !.popped = @ \cup {FsLookup(current_dir).val},
                      !.twice = @ \/ FsLookup(current_dir).val \in ghost.popped]
                /\ IF CanReadDir(current_dir)
                   THEN task' = [t EXCEPT !.pc = "next",
                                          !.dir = DirEntryPaths(current_dir)]
                   ELSE task' = t
    /\ UNCHANGED << shared_folders, conc, svc, req, resp, real_path, fsops, entries, pipe,
                    received, open_files >>

\* the loop over the entries with the subdirectories left aside
NextEntryFlat ==
    /\ task.pc = "next"
    /\ IF task.dir = {}
       THEN task' = [task EXCEPT !.pc = "pop"] /\ UNCHANGED << open_files, ghost >>
       ELSE \E path \in task.dir :
              LET t == [task EXCEPT !.dir = @ \ {path}]
                  met == [ghost EXCEPT
                            !.visited = @ \cup {FsLookup(path).val},
                            !.twice = @ \/ FsLookup(path).val \in ghost.visited]
              IN  IF PathIsDir(path)
                  THEN /\ task' = t
                       /\ UNCHANGED << open_files, ghost >>
                  ELSE IF CanOpen(path)
                  THEN /\ task' = [t EXCEPT !.pc = "header", !.cur = path,
                                            !.name = EntryName(task, path),
                                            !.ret = "next", !.opens = @ + 1]
                       /\ open_files' = open_files \cup {path}
                       /\ ghost' = met
                  ELSE /\ task' = [t EXCEPT !.opens = @ + 1]
                       /\ ghost' = met
                       /\ UNCHANGED open_files
    /\ UNCHANGED << shared_folders, conc, svc, req, resp, real_path, fsops, entries, pipe,
                    received >>

\* `while let Ok(Some(entry)) = entries.next_entry().await`: the entries
\* come in any order; a directory is pushed, a file is opened
NextEntry ==
    /\ task.pc = "next"
    /\ IF task.dir = {}
       THEN task' = [task EXCEPT !.pc = "pop"] /\ UNCHANGED << open_files, ghost >>
       ELSE \E path \in task.dir :
              LET t == [task EXCEPT !.dir = @ \ {path}]
                  met == [ghost EXCEPT
                            !.visited = @ \cup {FsLookup(path).val},
                            !.twice = @ \/ FsLookup(path).val \in ghost.visited]
              IN  IF PathIsDir(path)
                  THEN /\ task' = [t EXCEPT !.stack = Append(@, path)]
                       /\ UNCHANGED << open_files, ghost >>
                  ELSE IF CanOpen(path)
                  THEN /\ task' = [t EXCEPT !.pc = "header", !.cur = path,
                                            !.name = EntryName(task, path),
                                            !.ret = "next", !.opens = @ + 1]
                       /\ open_files' = open_files \cup {path}
                       /\ ghost' = met
                  ELSE /\ task' = [t EXCEPT !.opens = @ + 1]
                       /\ ghost' = met
                       /\ UNCHANGED open_files
    /\ UNCHANGED << shared_folders, conc, svc, req, resp, real_path, fsops, entries, pipe,
                    received >>

\* writer.write_entry_stream(builder): the entry's local header goes to the
\* pipe; on Err the entry is skipped and the file dropped, the loop goes on
WriteHeader ==
    /\ task.pc = "header"
    /\ \/ /\ WriteFails
          /\ ghost' = [ghost EXCEPT !.wfail = TRUE]
          /\ task' = [task EXCEPT !.pc = task.ret, !.cur = <<>>, !.name = <<>>]
          /\ open_files' = open_files \ {task.cur}
          /\ UNCHANGED pipe
       \/ /\ WriteFits
          /\ pipe' = [pipe EXCEPT !.buf = Append(@, <<"lfh", task.name>>)]
          /\ task' = [task EXCEPT !.pc = "copy"]
          /\ ghost' = [ghost EXCEPT !.written = @ + 1]
          /\ UNCHANGED open_files
    /\ UNCHANGED << shared_folders, conc, svc, req, resp, real_path, fsops, entries, received >>

\* tokio::io::copy into the entry and the entry's close, both with their
\* results ignored; the file is dropped at the end of its block
CopyData ==
    /\ task.pc = "copy"
    /\ \/ /\ WriteFails
          /\ ghost' = [ghost EXCEPT !.wfail = TRUE]
          /\ UNCHANGED pipe
       \/ /\ WriteFits
          /\ pipe' = [pipe EXCEPT !.buf = Append(@, <<"data", task.name>>)]
          /\ ghost' = [ghost EXCEPT !.written = @ + 1]
    /\ task' = [task EXCEPT !.pc = task.ret, !.cur = <<>>, !.name = <<>>]
    /\ open_files' = open_files \ {task.cur}
    /\ UNCHANGED << shared_folders, conc, svc, req, resp, real_path, fsops, entries, received >>

\* writer.close() followed by another round of the traversal loop
CloseWriterRewinds ==
    /\ task.pc = "close"
    /\ \/ /\ WriteFails
          /\ ghost' = [ghost EXCEPT !.wfail = TRUE]
          /\ pipe' = [pipe EXCEPT !.writer = "closed"]
       \/ /\ WriteFits
          /\ pipe' = [pipe EXCEPT !.buf = Append(@, <<"cd", <<>>>>),
                                  !.writer = "closed"]
          /\ ghost' = [ghost EXCEPT !.written = @ + 1]
    /\ task' = [task EXCEPT !.pc = IF pipe.writer = "open" THEN "pop" ELSE "done"]
    /\ UNCHANGED << shared_folders, conc, svc, req, resp, real_path, fsops, entries,
                    received, open_files >>

\* writer.close() with the pipe's write end kept alive after it
CloseWriterKeepsPipe ==
    /\ task.pc = "close"
    /\ \/ /\ WriteFails
          /\ ghost' = [ghost EXCEPT !.wfail = TRUE]
          /\ UNCHANGED pipe
       \/ /\ WriteFits
          /\ pipe' = [pipe EXCEPT !.buf = Append(@, <<"cd", <<>>>>)]
          /\ ghost' = [ghost EXCEPT !.written = @ + 1]
    /\ task' = [task EXCEPT !.pc = "done"]
    /\ UNCHANGED << shared_folders, conc, svc, req, resp, real_path, fsops, entries,
                    received, open_files >>

\* writer.close(): the central directory is written, then the writer and
\* with it the pipe's write end are dropped, whatever the result
CloseWriter ==
    /\ task.pc = "close"
    /\ \/ /\ WriteFails
          /\ ghost' = [ghost EXCEPT !.wfail = TRUE]
          /\ pipe' = [pipe EXCEPT !.writer = "closed"]
       \/ /\ WriteFits
          /\ pipe' = [pipe EXCEPT !.buf = Append(@, <<"cd", <<>>>>),
                                  !.writer = "closed"]
          /\ ghost' = [ghost EXCEPT !.written = @ + 1]
    /\ task' = [task EXCEPT !.pc = "done"]
    /\ UNCHANGED << shared_folders, conc, svc, req, resp, real_path, fsops, entries,
                    received, open_files >>

(***************************************************************************)
(* The consumer of the response body: ReaderStream over the read end.      *)
(***************************************************************************)
ConsumerRead ==
    /\ pipe.reader = "open"
    /\ pipe.buf # <<>>
    /\ received' = Append(received, Head(pipe.buf))
    /\ pipe' = [pipe EXCEPT !.buf = Tail(@)]
    /\ UNCHANGED << shared_folders, conc, svc, req, resp, real_path, fsops, entries, task,
                    open_files, ghost >>

\* the read returns 0 bytes once the buffer is drained and the writer gone
ConsumerEof ==
    /\ pipe.reader = "open"
    /\ pipe.buf = <<>>
    /\ pipe.writer = "closed"
    /\ pipe' = [pipe EXCEPT !.reader = "eof"]
    /\ UNCHANGED << shared_folders, conc, svc, req, resp, real_path, fsops, entries,
                    received, task, open_files, ghost >>

\* the client disconnects: the response body and with it the read end is
\* dropped, what was buffered is lost
ConsumerDrop ==
    /\ pipe.reader = "open"
    /\ pipe' = [pipe EXCEPT !.reader = "dropped", !.buf = <<>>]
    /\ UNCHANGED << shared_folders, conc, svc, req, resp, real_path, fsops, entries,
                    received, task, open_files, ghost >>

(***************************************************************************)
(* browse_handler (http.rs 99-164).                                        *)
(***************************************************************************)
\* code points of the characters in use
CharCode(c) ==
    CASE c = "." -> 46 [] c = "/" -> 47 [] c = "a" -> 97 [] c = "b" -> 98
      [] c = "s" -> 115 [] c = "t" -> 116

\* String::cmp(a, b) = Less
RECURSIVE StrLess(_, _)
StrLess(a, b) ==
    IF b = <<>> THEN FALSE
    ELSE IF a = <<>> THEN TRUE
    ELSE IF Head(a) = Head(b) THEN StrLess(Tail(a), Tail(b))
    ELSE CharCode(Head(a)) < CharCode(Head(b))

\* a comparator that looks at the kind alone
EntryLessKindOnly(a, b) == a.is_dir /\ ~b.is_dir

\* the comparator of entries.sort_by gives Less
EntryLess(a, b) ==
    IF a.is_dir = b.is_dir THEN StrLess(a.name, b.name) ELSE a.is_dir

RECURSIVE InsertEntry(_, _)
InsertEntry(sorted, e) ==
    IF sorted = <<>> THEN <<e>>
    ELSE IF EntryLess(e, Head(sorted)) THEN <<e>> \o sorted
    ELSE <<Head(sorted)>> \o InsertEntry(Tail(sorted), e)

\* Vec::sort_by: a stable sort
RECURSIVE SortEntries(_)
SortEntries(es) ==
    IF es = <<>> THEN <<>>
    ELSE InsertEntry(SortEntries(Front(es)), Last(es))

\* Metadata::len of a file
FsSize(node) == Len(node)

\* the root branch: one entry per shared folder that has a file name
RECURSIVE RootEntries(_)
RootEntries(folders) ==
    IF folders = <<>> THEN <<>>
    ELSE LET path == Last(folders)
             nm == FileName(path)
         IN  RootEntries(Front(folders)) \o
             (IF nm.some
              THEN << [ name |-> nm.val, path |-> nm.val,
                        is_dir |-> PathIsDir(path),
                        size |-> IF PathIsFile(path)
                                 THEN Some(FsSize(FsLookup(path).val))
                                 ELSE None ] >>
              ELSE <<>>)

\* the filesystem calls of the root branch, all made under the lock
RECURSIVE RootFsOps(_)
RootFsOps(folders) ==
    IF folders = <<>> THEN <<>>
    ELSE LET path == Last(folders)
         IN  RootFsOps(Front(folders)) \o
             (IF FileName(path).some
              THEN << FsOp("is_dir", path, TRUE), FsOp("is_file", path, TRUE) >>
                   \o (IF PathIsFile(path)
                       THEN << FsOp("metadata", path, TRUE) >> ELSE <<>>)
              ELSE <<>>)

\* the entry of a child with the hidden children listed as well
ChildEntryShowHidden(req_path_clean, dirnode, name) ==
    LET node == Append(dirnode, name)
        is_dir == node \in FsDirs
    IN  << [ name |-> name,
             path |-> req_path_clean \o <<SLASH>> \o name,
             is_dir |-> is_dir,
             size |-> IF is_dir THEN None ELSE Some(FsSize(node)) ] >>

\* the entry pushed for one child of the listed directory, none for a
\* hidden child
ChildEntry(req_path_clean, dirnode, name) ==
    LET node == Append(dirnode, name)
        is_dir == node \in FsDirs
    IN  IF Head(name) = DOT THEN <<>>
        ELSE << [ name |-> name,
                  path |-> req_path_clean \o <<SLASH>> \o name,
                  is_dir |-> is_dir,
                  size |-> IF is_dir THEN None ELSE Some(FsSize(node)) ] >>

RECURSIVE ChildEntries(_, _, _)
ChildEntries(req_path_clean, dirnode, names) ==
    IF names = <<>> THEN <<>>
    ELSE ChildEntries(req_path_clean, dirnode, Front(names))
         \o ChildEntry(req_path_clean, dirnode, Last(names))

\* the orders in which read_dir may yield the names of a set
Orders(S) ==
    { f \in [1..Cardinality(S) -> S] :
        \A i, j \in 1..Cardinality(S) : i # j => f[i] # f[j] }

browse_handler ==
    /\ Idle
    /\ \E query \in BrowseQueries :
         LET req_path == IF query.some THEN query.val ELSE <<SLASH>>
             req_path_clean == TrimMatches(req_path)
         IN  /\ req' = [kind |-> "browse", path |-> req_path]
             /\ IF req_path_clean = <<>>
                THEN /\ entries' = SortEntries(RootEntries(shared_folders))
                     /\ fsops' = RootFsOps(shared_folders)
                     /\ real_path' = None
                ELSE LET rp == resolve_path(shared_folders, req_path_clean)
                     IN  /\ real_path' = rp
                         /\ IF ~rp.some
                            THEN entries' = <<>> /\ fsops' = <<>>
                            ELSE /\ fsops' = << FsOp("read_dir", rp.val, FALSE) >>
                                 /\ IF ~CanReadDir(rp.val)
                                    THEN entries' = <<>>
                                    ELSE \E order \in
                                           Orders(ChildNames(FsLookup(rp.val).val)) :
                                           entries' = SortEntries(
                                               ChildEntries(req_path_clean,
                                                            FsLookup(rp.val).val,
                                                            order))
    /\ resp' = [status |-> 200, body |-> "json"]
    /\ UNCHANGED << shared_folders, conc, svc, pipe, received, task, open_files, ghost >>

(***************************************************************************)
(* The request is over: the response was produced, the producer task (if   *)
(* any) has ended and the consumer is gone.  The server takes the next     *)
(* request.                                                                *)
(***************************************************************************)
Complete ==
    /\ req.kind \notin {"none", "resolve", "resolved"}
    /\ resp.status # 0
    /\ task.pc \in {"none", "done"}
    /\ pipe.reader \in {"none", "eof", "dropped"}
    /\ req' = NoReq
    /\ resp' = NoResp
    /\ real_path' = None
    /\ fsops' = <<>>
    /\ entries' = <<>>
    /\ pipe' = NoPipe
    /\ received' = <<>>
    /\ task' = NoTask
    /\ open_files' = {}
    /\ ghost' = NoGhost
    /\ UNCHANGED << shared_folders, conc, svc >>

Next ==
    \/ browse_handler
    \/ file_handler
    \/ zip_folder_handler
    \/ zip_selection_handler
    \/ SelItem
    \/ PopDir
    \/ NextEntry
    \/ WriteHeader
    \/ CopyData
    \/ CloseWriter
    \/ ConsumerRead
    \/ ConsumerEof
    \/ ConsumerDrop
    \/ Complete

Spec == Init /\ [][Next]_vars

\* the endpoints that take one path: listing, download, folder archive
NextPath ==
    \/ browse_handler
    \/ file_handler
    \/ zip_folder_handler
    \/ PopDir
    \/ NextEntry
    \/ WriteHeader
    \/ CopyData
    \/ CloseWriter
    \/ ConsumerRead
    \/ ConsumerEof
    \/ ConsumerDrop
    \/ Complete

SpecPath == Init /\ [][NextPath]_vars

\* the selection archive endpoint
NextSelection ==
    \/ zip_selection_handler
    \/ SelItem
    \/ PopDir
    \/ NextEntry
    \/ WriteHeader
    \/ CopyData
    \/ CloseWriter
    \/ ConsumerRead
    \/ ConsumerEof
    \/ ConsumerDrop
    \/ Complete

SpecSelection == Init /\ [][NextSelection]_vars

\* the steps of the spawned producer task
Producer ==
    \/ SelItem
    \/ PopDir
    \/ NextEntry
    \/ WriteHeader
    \/ CopyData
    \/ CloseWriter

\* the steps of a consumer that reads the response body
Reader ==
    \/ ConsumerRead
    \/ ConsumerEof

\* the two archive endpoints
NextArchive ==
    \/ zip_folder_handler
    \/ zip_selection_handler
    \/ SelItem
    \/ PopDir
    \/ NextEntry
    \/ WriteHeader
    \/ CopyData
    \/ CloseWriter
    \/ ConsumerRead
    \/ ConsumerEof
    \/ ConsumerDrop
    \/ Complete

SpecArchive == Init /\ [][NextArchive]_vars

\* the archive endpoints with a client that stays connected
NextStream ==
    \/ zip_folder_handler
    \/ zip_selection_handler
    \/ SelItem
    \/ PopDir
    \/ NextEntry
    \/ WriteHeader
    \/ CopyData
    \/ CloseWriter
    \/ ConsumerRead
    \/ ConsumerEof
    \/ Complete

\* the number of shared roots of the servers the streaming runs start with
MaxStreamRoots == 1

\* the server was started with a short list of shared roots
InitStream ==
    /\ shared_folders \in { l \in RootLists : Len(l) <= MaxStreamRoots }
    /\ Idle

\* the runtime keeps polling a spawned task that can make progress
\* (tokio::spawn), and the client keeps reading the body it asked for
SpecStream ==
    /\ InitStream
    /\ [][NextStream]_vars
    /\ WF_vars(Producer)
    /\ WF_vars(Reader)

(***************************************************************************)
(* Archive requests served side by side.  Every call of a handler makes    *)
(* its own pipe (http.rs 220, 279) and moves the write end, the stack and  *)
(* the writer into its own spawned task (227-229, 285-286, 306); the read  *)
(* end goes into the body of its own response (221-222, 280-281).  A       *)
(* selection request carries a list of one path.                           *)
(***************************************************************************)
\* the request paths of the side-by-side runs
ConcPaths == { nmA, <<"a", "/", "a">>, <<"a", "/", "b">>, nmB }

\* every job on one and the same pipe
PipeShared(j) == 1

\* the pipe the handler call j created: `let (w, r) = duplex(64 * 1024)`
PipeOf(j) == j

\* a write on pipe p fails, goes through
PipeFails(p) == p.reader = "dropped"

PipeFits(p) == p.reader # "dropped" /\ Len(p.buf) < PipeCap

\* one step of a producer task t that writes to pipe p and serves request
\* rq: the task and the pipe after it, for every way the step can go
StepsOf(t, p, rq) ==
    CASE t.pc = "item" ->
           IF t.left = 0 THEN { [t |-> [t EXCEPT !.pc = "close"], p |-> p] }
           ELSE LET rel_path == rq.path
                    fp == resolve_path(t.shared, rel_path)
                    t1 == [t EXCEPT !.left = @ - 1, !.rel_path = rel_path]
                IN  IF IsTraversal(rel_path) \/ ~fp.some
                    THEN { [t |-> t1, p |-> p] }
                    ELSE IF PathIsFile(fp.val)
                    THEN IF CanOpen(fp.val)
                         THEN { [t |-> [t1 EXCEPT !.pc = "header", !.cur = fp.val,
                                                   !.name = rel_path,
                                                   !.ret = "item",
                                                   !.opens = @ + 1],
                                 p |-> p] }
                         ELSE { [t |-> [t1 EXCEPT !.opens = @ + 1], p |-> p] }
                    ELSE IF PathIsDir(fp.val)
                    THEN { [t |-> [t1 EXCEPT !.pc = "pop", !.full_path = fp.val,
                                              !.parent_path = ParentOrSelf(fp.val),
                                              !.stack = <<fp.val>>,
                                              !.ret = "next"],
                            p |-> p] }
                    ELSE { [t |-> t1, p |-> p] }
      [] t.pc = "pop" ->
           IF t.stack = <<>>
           THEN { [t |-> [t EXCEPT !.pc = IF t.form = "folder" THEN "close"
                                                               ELSE "item"],
                   p |-> p] }
           ELSE LET current_dir == Last(t.stack)
                    t1 == [t EXCEPT !.stack = Front(@), !.reads = @ + 1]
                IN  IF CanReadDir(current_dir)
                    THEN { [t |-> [t1 EXCEPT !.pc = "next",
                                              !.dir = DirEntryPaths(current_dir)],
                            p |-> p] }
                    ELSE { [t |-> t1, p |-> p] }
      [] t.pc = "next" ->
           IF t.dir = {} THEN { [t |-> [t EXCEPT !.pc = "pop"], p |-> p] }
           ELSE { LET t1 == [t EXCEPT !.dir = @ \ {path}]
                  IN  IF PathIsDir(path)
                      THEN [t |-> [t1 EXCEPT !.stack = Append(@, path)], p |-> p]
                      ELSE IF CanOpen(path)
                      THEN [t |-> [t1 EXCEPT !.pc = "header", !.cur = path,
                                              !.name = EntryName(t, path),
                                              !.ret = "next", !.opens = @ + 1],
                            p |-> p]
                      ELSE [t |-> [t1 EXCEPT !.opens = @ + 1], p |-> p]
                  : path \in t.dir }
      [] t.pc = "header" ->
           IF PipeFails(p)
           THEN { [t |-> [t EXCEPT !.pc = t.ret, !.cur = <<>>, !.name = <<>>],
                   p |-> p] }
           ELSE IF PipeFits(p)
           THEN { [t |-> [t EXCEPT !.pc = "copy"],
                   p |-> [p EXCEPT !.buf = Append(@, <<"lfh", t.name>>)]] }
           ELSE {}
      [] t.pc = "copy" ->
           IF PipeFails(p)
           THEN { [t |-> [t EXCEPT !.pc = t.ret, !.cur = <<>>, !.name = <<>>],
                   p |-> p] }
           ELSE IF PipeFits(p)
           THEN { [t |-> [t EXCEPT !.pc = t.ret, !.cur = <<>>, !.name = <<>>],
                   p |-> [p EXCEPT !.buf = Append(@, <<"data", t.name>>)]] }
           ELSE {}
      [] t.pc = "close" ->
           IF PipeFails(p)
           THEN { [t |-> [t EXCEPT !.pc = "done"],
                   p |-> [p EXCEPT !.writer = "closed"]] }
           ELSE IF PipeFits(p)
           THEN { [t |-> [t EXCEPT !.pc = "done"],
                   p |-> [p EXCEPT !.buf = Append(@, <<"cd", <<>>>>),
                                   !.writer = "closed"]] }
           ELSE {}
      [] OTHER -> {}

\* everything but conc
single ==
    << shared_folders, req, resp, real_path, fsops, entries, pipe, received,
       task, open_files, ghost, svc >>

\* a folder-zip request arrives while other requests are being served
ConcZipFolder ==
    /\ \E j \in JobIds, path \in ConcPaths :
         LET r == ZipFolderResult(shared_folders, path)
         IN  /\ conc.req[j] = NoReq
             /\ IF r.status = 200
                THEN conc' = [conc EXCEPT
                       !.req[j] = [kind |-> "zip_folder", path |-> path],
                       !.pipe[PipeOf(j)] = NewPipe,
                       !.task[j] = [NoTask EXCEPT
                                      !.pc = "pop", !.form = "folder",
                                      !.stack = <<r.real_path.val>>,
                                      !.parent_path =
                                          ParentOrSelf(r.real_path.val),
                                      !.ret = "next"]]
                ELSE conc' = [conc EXCEPT
                       !.req[j] = [kind |-> "zip_folder", path |-> path]]
    /\ UNCHANGED single

\* a selection request with a list of one path arrives
ConcZipSelection ==
    /\ \E j \in JobIds, path \in ConcPaths :
         /\ conc.req[j] = NoReq
         /\ conc' = [conc EXCEPT
                !.req[j] = [kind |-> "zip_selection", path |-> path],
                !.pipe[PipeOf(j)] = NewPipe,
                !.task[j] = [NoTask EXCEPT !.pc = "item", !.form = "selection",
                                           !.left = 1,
                                           !.shared = shared_folders,
                                           !.ret = "item"]]
    /\ UNCHANGED single

\* the runtime polls one of the producer tasks
ConcProducer ==
    /\ \E j \in JobIds :
         \E s \in StepsOf(conc.task[j], conc.pipe[PipeOf(j)], conc.req[j]) :
            conc' = [conc EXCEPT !.task[j] = s.t, !.pipe[PipeOf(j)] = s.p]
    /\ UNCHANGED single

\* one of the consumers reads from its pipe
ConcRead ==
    /\ \E j \in JobIds :
         /\ conc.req[j] # NoReq
         /\ conc.pipe[PipeOf(j)].reader = "open"
         /\ conc.pipe[PipeOf(j)].buf # <<>>
         /\ conc' = [conc EXCEPT
                !.received[j] = Append(@, Head(conc.pipe[PipeOf(j)].buf)),
                !.pipe[PipeOf(j)].buf = Tail(@)]
    /\ UNCHANGED single

ConcEof ==
    /\ \E j \in JobIds :
         /\ conc.req[j] # NoReq
         /\ conc.pipe[PipeOf(j)].reader = "open"
         /\ conc.pipe[PipeOf(j)].buf = <<>>
         /\ conc.pipe[PipeOf(j)].writer = "closed"
         /\ conc' = [conc EXCEPT !.pipe[PipeOf(j)].reader = "eof"]
    /\ UNCHANGED single

\* one of the clients disconnects
ConcDrop ==
    /\ \E j \in JobIds :
         /\ conc.req[j] # NoReq
         /\ conc.pipe[PipeOf(j)].reader = "open"
         /\ conc' = [conc EXCEPT !.pipe[PipeOf(j)].reader = "dropped",
                                  !.pipe[PipeOf(j)].buf = <<>>]
    /\ UNCHANGED single

NextConcurrent ==
    \/ ConcZipFolder
    \/ ConcZipSelection
    \/ ConcProducer
    \/ ConcRead
    \/ ConcEof
    \/ ConcDrop

SpecConcurrent == InitStream /\ [][NextConcurrent]_vars

\* shared roots with one share name: a directory and a file
AgreeRoots == { <<SLASH, "s", SLASH, "a">>, <<SLASH, "a">> }

MaxAgreeRoots == 2

\* the lists of such roots, no root listed twice
AgreeRootLists ==
    { l \in UNION { [1..n -> AgreeRoots] : n \in 0..MaxAgreeRoots } :
        \A i, k \in DOMAIN l : i # k => l[i] # l[k] }

\* the server was started with roots of one share name
InitAgree ==
    /\ shared_folders \in AgreeRootLists
    /\ Idle

SpecAgree == InitAgree /\ [][NextConcurrent]_vars

(***************************************************************************)
(* The desktop side (lib.rs): start_server_cmd and stop_server_cmd, and    *)
(* the server tasks they create and stop (http.rs start_server).  The      *)
(* commands are async commands of the runtime: two of them may be under    *)
(* way at a time, each running its locked block in one piece.              *)
(***************************************************************************)
\* everything but svc
served ==
    << shared_folders, req, resp, real_path, fsops, entries, pipe, received,
       task, open_files, ghost, conc >>

\* the receiver of a server task is alive: the task has not ended and has
\* not finished waiting for the signal
ReceiverAlive(srv) == srv.st \in {"created", "spawned", "listening", "serving"}

\* a send that leaves no trace in the channel
SendNowhere(srv) == srv.chan

\* `let _ = tx.send(())` on the sender taken out of the state, which is
\* dropped at the end of the block: the signal is buffered for a receiver
\* that is alive, and the channel has no sender any more
SendAndDrop(srv) == [msg |-> ReceiverAlive(srv), open |-> FALSE]

\* the sender taken out of the state and forgotten, nothing sent
TakeOnly(srv) == srv

\* `if let Some(tx) = shutdown_tx.take() { let _ = tx.send(()); }`, seen
\* from the server task the sender belongs to
TakeAndSend(srv) ==
    [srv EXCEPT !.chan = SendAndDrop(srv), !.sent = TRUE,
                !.early = srv.st \in {"created", "spawned", "listening"}]

\* shutdown_rx.recv() returns: a signal is buffered, or the sender is gone
RecvReady(ch) == ch.msg \/ ~ch.open

\* the task holds a listener on the port
HoldsPort(srv, port) == srv.st \in {"listening", "serving"} /\ srv.port = port

\* start_server_cmd up to the end of its locked block: a new channel, the
\* old sender taken and signalled, the new sender stored
start_server_cmd ==
    /\ svc.n < MaxServers
    /\ \E port \in Ports, folders \in ServiceRootLists :
         LET id == svc.n + 1
             old == svc.shutdown_tx
             created == [NoServer EXCEPT
                           !.st = "created", !.port = port,
                           !.shared_folders = folders,
                           !.restart = \E k \in ServerIds :
                                          svc.inst[k].st \in {"listening", "serving"}]
             inst1 == IF old = 0 THEN svc.inst
                      ELSE [svc.inst EXCEPT ![old] = TakeAndSend(svc.inst[old])]
         IN  svc' = [svc EXCEPT !.n = id, !.shutdown_tx = id,
                                !.inst = [inst1 EXCEPT ![id] = created]]
    /\ UNCHANGED served

\* start_server_cmd from the spawn of the server task to its Ok(())
start_server_spawn(i) ==
    /\ svc.inst[i].st = "created"
    /\ svc' = [svc EXCEPT !.inst[i].st = "spawned",
                           !.last = [cmd |-> "start_server_cmd", ret |-> "Ok",
                                     seq |-> 1 - svc.last.seq]]
    /\ UNCHANGED served

stop_server_cmd ==
    /\ LET old == svc.shutdown_tx
       IN  svc' = [svc EXCEPT
                     !.shutdown_tx = 0,
                     !.inst = IF old = 0 THEN @
                              ELSE [@ EXCEPT ![old] = TakeAndSend(@)],
                     !.last = [cmd |-> "stop_server_cmd", ret |-> "Ok",
                               seq |-> 1 - svc.last.seq]]
    /\ UNCHANGED served

\* start_server: TcpListener::bind(addr); an error ends the task
Bind(i) ==
    /\ svc.inst[i].st = "spawned"
    /\ IF \E k \in ServerIds \ {i} : HoldsPort(svc.inst[k], svc.inst[i].port)
       THEN svc' = [svc EXCEPT !.inst[i].st = "failed"]
       ELSE svc' = [svc EXCEPT !.inst[i].st = "listening"]
    /\ UNCHANGED served

\* axum::serve(..).with_graceful_shutdown(..) starts to accept
Serve(i) ==
    /\ svc.inst[i].st = "listening"
    /\ svc' = [svc EXCEPT !.inst[i].st = "serving"]
    /\ UNCHANGED served

\* a client connects
Accept(i) ==
    /\ svc.inst[i].st = "serving"
    /\ svc.inst[i].conns < MaxConns
    /\ svc' = [svc EXCEPT !.inst[i].conns = @ + 1]
    /\ UNCHANGED served

\* a connection ends
ConnClosed(i) ==
    /\ svc.inst[i].st \in {"serving", "draining"}
    /\ svc.inst[i].conns > 0
    /\ svc' = [svc EXCEPT !.inst[i].conns = @ - 1]
    /\ UNCHANGED served

\* the shutdown future completes: no more connections are accepted, the
\* listener is dropped, the open connections are waited for
GracefulShutdown(i) ==
    /\ svc.inst[i].st = "serving"
    /\ RecvReady(svc.inst[i].chan)
    /\ svc' = [svc EXCEPT !.inst[i].st = "draining"]
    /\ UNCHANGED served

\* the last connection is gone: axum::serve returns, the task ends
ServerDone(i) ==
    /\ svc.inst[i].st = "draining"
    /\ svc.inst[i].conns = 0
    /\ svc' = [svc EXCEPT !.inst[i].st = "stopped"]
    /\ UNCHANGED served

\* what the runtime does next with server task i and the command that
\* created it
Progress(i) ==
    \/ start_server_spawn(i)
    \/ Bind(i)
    \/ Serve(i)
    \/ GracefulShutdown(i)
    \/ ServerDone(i)

ServerStep ==
    \E i \in ServerIds :
        \/ Progress(i)
        \/ Accept(i)
        \/ ConnClosed(i)

NextService ==
    \/ start_server_cmd
    \/ stop_server_cmd
    \/ ServerStep

\* the application was launched: no server recorded (lib.rs run)
InitService ==
    /\ shared_folders = <<>>
    /\ Idle

SpecService == InitService /\ [][NextService]_vars

\* the runs followed to their end: fewer server tasks
NextLifecycle ==
    \/ svc.n < MaxFairServers /\ start_server_cmd
    \/ stop_server_cmd
    \/ ServerStep

\* the runtime keeps polling a task that can go on (the command after its
\* locked block, the server task at bind, at serve, at the shutdown signal
\* and at the end of its connections), and a connection that is open
\* comes to its end
SpecLifecycle ==
    /\ InitService
    /\ [][NextLifecycle]_vars
    /\ \A i \in ServerIds : WF_vars(Progress(i)) /\ WF_vars(ConnClosed(i))

(***************************************************************************)
(* resolve_path on its own: the inputs are drawn by the initial state, the *)
(* one action applies the function.                                        *)
(***************************************************************************)
\* the longest list of shared roots resolve_path is called with: two roots
\* that match the same path and one more
MaxResolveRoots == 3

ResolveRootLists == UNION { [1..n -> RootChoices] : n \in 0..MaxResolveRoots }

InitResolve ==
    /\ shared_folders \in ResolveRootLists
    /\ req \in { [kind |-> "resolve", path |-> p] : p \in Paths }
    /\ resp = NoResp
    /\ real_path = None
    /\ fsops = <<>>
    /\ entries = <<>>
    /\ pipe = NoPipe
    /\ received = <<>>
    /\ task = NoTask
    /\ open_files = {}
    /\ ghost = NoGhost
    /\ conc = NoConc
    /\ svc = NoSvc

ResolveCall ==
    /\ req.kind = "resolve"
    /\ real_path' = resolve_path(shared_folders, req.path)
    /\ req' = [req EXCEPT !.kind = "resolved"]
    /\ UNCHANGED << shared_folders, conc, svc, resp, fsops, entries, pipe, received, task,
                    open_files, ghost >>

NextResolve == ResolveCall

SpecResolve == InitResolve /\ [][NextResolve]_vars

(***************************************************************************)
(* Properties.                                                             *)
(***************************************************************************)
\* the share name of a root matches the trimmed path: equal to it, or
\* followed in it by "/" and a suffix
NameMatches(root, rel) ==
    /\ FileName(root).some
    /\ \/ rel = FileName(root).val
       \/ StartsWith(rel, FileName(root).val \o <<SLASH>>)

\* what resolution through this root gives: the root, or the root joined
\* with the suffix
Through(root, rel) ==
    IF rel = FileName(root).val THEN Some(root)
    ELSE Some(Join(root, SliceFrom(rel, Len(FileName(root).val) + 1)))

\* the roots that end the scan: a match, or a root without a share name
Decisive(folders, rel) ==
    { i \in 1..Len(folders) :
        ~FileName(folders[i]).some \/ NameMatches(folders[i], rel) }

Min(S) == CHOOSE x \in S : \A y \in S : x <= y

\* C1 as stated: for every root R of the list, a path equal to R's share
\* name resolves to R, a path made of R's share name, "/" and a suffix
\* resolves to R joined with the suffix, and a path that matches no root's
\* share name (the empty path included) resolves to None.
C1_EveryRootResolves ==
    req.kind = "resolved" =>
        LET rel == TrimMatches(req.path)
        IN  /\ \A i \in 1..Len(shared_folders) :
                 (rel # <<>> /\ NameMatches(shared_folders[i], rel))
                     => real_path = Through(shared_folders[i], rel)
            /\ (rel = <<>> \/ \A i \in 1..Len(shared_folders) :
                                 ~NameMatches(shared_folders[i], rel))
                     => real_path = None

\* C1 amended: the roots are scanned in configuration order; the first root
\* that matches the trimmed path decides (the root itself, or the root
\* joined with the suffix), unless a root without a share name comes before
\* it, which ends the scan with None; an empty path and a path no root
\* matches give None.
C1_FirstMatchResolves ==
    req.kind = "resolved" =>
        LET rel == TrimMatches(req.path)
            dec == Decisive(shared_folders, rel)
        IN  IF rel = <<>> \/ dec = {} THEN real_path = None
            ELSE IF ~FileName(shared_folders[Min(dec)]).some THEN real_path = None
            ELSE real_path = Through(shared_folders[Min(dec)], rel)

\* C1 witness: two roots with the same share name, the path resolved
\* through the first of them
C1_Witness ==
    /\ req.kind = "resolved"
    /\ Len(shared_folders) = 2
    /\ shared_folders[1] # shared_folders[2]
    /\ NameMatches(shared_folders[1], TrimMatches(req.path))
    /\ NameMatches(shared_folders[2], TrimMatches(req.path))
    /\ TrimMatches(req.path) # FileName(shared_folders[1]).val
    /\ real_path = Through(shared_folders[1], TrimMatches(req.path))

\* C2: for a path without a ".." segment, a resolved path is the matched
\* shared root or lies below it: the root's components are a prefix of the
\* resolved path's components.
C2_ResolvedBelowRoot ==
    (req.kind = "resolved" /\ ~HasDotDotSegment(req.path) /\ real_path.some) =>
        LET rel == TrimMatches(req.path)
            root == shared_folders[Min(Decisive(shared_folders, rel))]
        IN  IsPrefixSeq(Components(root), Components(real_path.val))

\* C3: a download or folder-zip request whose path has a ".." segment is
\* answered 403 and nothing else happens: no resolution, no filesystem
\* operation, no pipe, no task, no open file.
C3_TraversalForbidden ==
    (req.kind \in {"file", "zip_folder"} /\ HasDotDotSegment(req.path)) =>
        /\ resp = [status |-> 403, body |-> "none"]
        /\ real_path = None
        /\ fsops = <<>>
        /\ pipe = NoPipe
        /\ task = NoTask
        /\ open_files = {}

\* C3 witness: a folder-zip request with a ".." segment whose path would
\* resolve to an existing directory is answered 403
C3_Witness ==
    /\ req.kind = "zip_folder"
    /\ HasDotDotSegment(req.path)
    /\ resolve_path(shared_folders, req.path).some
    /\ PathIsDir(resolve_path(shared_folders, req.path).val)
    /\ resp.status = 403

\* the member names of the entries whose local header is in a stream
LfhNames(stream) ==
    LET heads == SelectSeq(stream, LAMBDA r : r[1] = "lfh")
    IN  [i \in 1..Len(heads) |-> heads[i][2]]

Range(f) == { f[i] : i \in DOMAIN f }

Count(f, x) == Cardinality({ i \in DOMAIN f : f[i] = x })

\* two sequences with the same elements, each as many times
SameBag(f, g) ==
    /\ Len(f) = Len(g)
    /\ \A x \in Range(f) \cup Range(g) : Count(f, x) = Count(g, x)

\* C4: the directory browse_handler enumerates is a shared root or lies
\* below one, whatever the request path (".." segments included).
C4_BrowseStaysInRoots ==
    req.kind = "browse" =>
        \A i \in 1..Len(fsops) :
            (fsops[i].op = "read_dir" /\ CanReadDir(fsops[i].path)) =>
                \E k \in 1..Len(shared_folders) :
                    /\ FsLookup(shared_folders[k]).some
                    /\ IsPrefixSeq(FsLookup(shared_folders[k]).val,
                                   FsLookup(fsops[i].path).val)

\* C5: the download's answer classifies the request: 403 exactly when the
\* path has a ".." segment; else 404 when the path does not resolve or the
\* target is missing or a directory; else 500 when the file cannot be
\* opened; else success with the file as body.
C5_DownloadClassification ==
    req.kind = "file" =>
        LET fp == resolve_path(shared_folders, req.path)
        IN  resp.status =
                IF HasDotDotSegment(req.path) THEN 403
                ELSE IF ~fp.some \/ ~PathExists(fp.val) \/ PathIsDir(fp.val)
                THEN 404
                ELSE IF ~CanOpen(fp.val) THEN 500
                ELSE 200

C7_FolderZipNames ==
    (/\ req.kind = "zip_folder"
     /\ pipe.reader = "eof"
     /\ FsLookup(real_path.val).val # <<>>
     /\ SubtreeReadable(FsLookup(real_path.val).val)) =>
        LET target == FsLookup(real_path.val).val
            names == LfhNames(received)
        IN  /\ Len(names) = Cardinality(FilesBelow(target))
            /\ { Components(names[i]) : i \in 1..Len(names) }
                   = { SubSeq(f, Len(target), Len(f)) : f \in FilesBelow(target) }
            /\ \A i \in 1..Len(names) : Components(names[i])[1] = Last(target)

\* C7 witness: the archive of a directory with a subdirectory was read to
\* the end and has three entries
C7_Witness ==
    /\ req.kind = "zip_folder"
    /\ pipe.reader = "eof"
    /\ FsLookup(real_path.val).val = <<nmS, nmA>>
    /\ Len(LfhNames(received)) = 3

\* C8: a selection of N paths that resolve to files and M paths that resolve
\* to directories with F descendant files in total (all readable, the
\* consumer reads to the end) gives an archive of exactly N+F entries: the
\* requested string for a selected file, requested string "/" relative path
\* for a file under a selected directory.
C8_SelectionEntries ==
    (req.kind = "zip_selection" /\ pipe.reader = "eof" /\ ghost.clean) =>
        SameBag(LfhNames(received), ghost.expect)

\* C9, in every state: the selection request is answered with success and
\* a stream, and a selection of skipped paths only ends with the writer
\* closed, no entry written, and the archive finalized
C9_State ==
    req.kind = "zip_selection" =>
        /\ resp = [status |-> 200, body |-> "pipe"]
        /\ pipe.reader # "none"
        /\ (task.pc = "done" /\ ghost.allbad) =>
               /\ pipe.writer = "closed"
               /\ LfhNames(received \o pipe.buf) = <<>>
               /\ pipe.reader # "dropped"
                      => received \o pipe.buf = << <<"cd", <<>>>> >>

\* C9, in every step that takes a requested path that has "..", does not
\* resolve, or resolves to neither file nor directory: nothing is written,
\* nothing opened, and the loop is at the next path
C9_Step ==
    (/\ task.pc = "item"
     /\ task'.left = task.left - 1
     /\ BadItem(task.shared, task'.rel_path)) =>
        /\ task'.pc = "item"
        /\ task' = [task EXCEPT !.left = @ - 1, !.rel_path = task'.rel_path]
        /\ pipe' = pipe
        /\ received' = received
        /\ open_files' = open_files

\* C9: the selection form never fails at the top level and skips bad paths
\* one by one: every request gets a success response with a stream; a path
\* that has "..", does not resolve or resolves to neither file nor
\* directory contributes no entry and leaves the other paths' entries
\* alone; a selection of such paths only gives an archive without entries
\* that is finalized and closed.
C9_SelectionSkipsBadPaths == [](C9_State) /\ [][C9_Step]_vars

\* C9 witness: the last requested path was skipped, an earlier one
\* contributed its entry, and the consumer has read the finalized archive
C9_Witness ==
    /\ req.kind = "zip_selection"
    /\ pipe.reader = "eof"
    /\ BadItem(task.shared, task.rel_path)
    /\ ~ghost.allbad
    /\ Len(LfhNames(received)) = 1
    /\ Last(received) = <<"cd", <<>>>>

\* C10: once a write of the producer has failed because the consumer
\* dropped the read end, the task abandons the traversal: it reads no
\* further directory, opens no further file and holds no file handle.
C10_AbandonsAfterFailedWrite ==
    [][ghost.wfail =>
          /\ task'.reads <= task.reads
          /\ task'.opens <= task.opens
          /\ open_files' = {}]_vars

\* the producer task has been spawned and has not been cleaned up
JobRunning == task.pc # "none"

\* the stream ended properly: the producer is through, the write end is
\* closed, the consumer saw end-of-stream after every record written, the
\* last of them the central directory
StreamEnded ==
    /\ task.pc = "done"
    /\ task.stack = <<>>
    /\ task.dir = {}
    /\ task.left = 0
    /\ pipe.writer = "closed"
    /\ pipe.reader = "eof"
    /\ pipe.buf = <<>>
    /\ Len(received) = ghost.written
    /\ received # <<>>
    /\ Last(received) = <<"cd", <<>>>>

\* C11: with a fairly scheduled producer and a consumer that keeps reading,
\* every archive job ends: the traversal finishes, the archive is finalized,
\* the write end is closed and the consumer sees end-of-stream after it has
\* received every record the producer wrote, skipped files and directories
\* included.
C11_EndOfStreamDelivered == JobRunning ~> StreamEnded

\* C11 witness: the archive of a directory with an unreadable subdirectory
\* and a file that cannot be opened was read to the end of the stream
C11_Witness ==
    /\ StreamEnded
    /\ req.kind = "zip_folder"
    /\ FsLookup(real_path.val).val = <<nmT, nmA>>
    /\ task.reads = 2
    /\ task.opens = 2
    /\ Len(LfhNames(received)) = 1

\* the consumer is connected and the pipe holds as much as it can
PipeFull == pipe.reader = "open" /\ Len(pipe.buf) = PipeCap

\* the producer is at a write: an entry's header, its data, the central
\* directory
AtWrite == task.pc \in {"header", "copy", "close"}

\* the records written and not yet read fit the pipe
UnreadBounded ==
    pipe.reader \in {"open", "eof"} =>
        /\ ghost.written - Len(received) = Len(pipe.buf)
        /\ ghost.written - Len(received) <= PipeCap

\* C12 as stated: what is written and not yet read never exceeds the pipe
\* capacity, and while the pipe is full the producer takes no traversal
\* step (no directory read, no file open) until the consumer reads.
C12_FullPipeStopsTraversal ==
    /\ []UnreadBounded
    /\ [][PipeFull =>
             \/ received' # received
             \/ task'.reads <= task.reads /\ task'.opens <= task.opens]_vars

\* C12 amended: what is written and not yet read never exceeds the pipe
\* capacity; while the pipe is full no write completes, and a producer that
\* has reached a write is suspended there, holding at most one open file,
\* until the consumer reads or disconnects.  Up to its next write the
\* producer goes on reading directories and opening files.
C12_BackPressure ==
    /\ [](UnreadBounded /\ Cardinality(open_files) <= 1)
    /\ [][PipeFull =>
             /\ ghost'.written = ghost.written
             /\ \/ pipe'.buf = pipe.buf
                \/ received' # received
                \/ pipe'.reader = "dropped"
             /\ AtWrite => task' = task /\ open_files' = open_files]_vars

\* C12 witness: the pipe is full, more than its capacity has been written
\* already, and the producer waits at the header of the next entry with
\* the entry's file open
C12_Witness ==
    /\ PipeFull
    /\ task.pc = "header"
    /\ open_files = {task.cur}
    /\ ghost.written > PipeCap
    /\ received # <<>>

\* the trimmed path of the browse request in flight
BrowsePath == TrimMatches(req.path)

\* the browse request lists the children of a directory it could read
ListsChildren ==
    /\ req.kind = "browse"
    /\ BrowsePath # <<>>
    /\ real_path.some
    /\ CanReadDir(real_path.val)

\* C13: in a browse response every directory comes before every file and
\* names of the same kind ascend in code-point order; the response is the
\* same for every order in which read_dir may yield the children, so a
\* repeated call on unchanged roots and filesystem returns the same sequence.
C13_ListingOrder ==
    req.kind = "browse" =>
        /\ \A i, j \in 1..Len(entries) :
               i < j => /\ entries[i].is_dir \/ ~entries[j].is_dir
                        /\ entries[i].is_dir = entries[j].is_dir
                               => ~StrLess(entries[j].name, entries[i].name)
        /\ BrowsePath = <<>> => entries = SortEntries(RootEntries(shared_folders))
        /\ ListsChildren =>
               \A order \in Orders(ChildNames(FsLookup(real_path.val).val)) :
                   entries = SortEntries(ChildEntries(BrowsePath,
                                                      FsLookup(real_path.val).val,
                                                      order))

\* C13 witness: the listing of a directory with one subdirectory and two
\* files, the subdirectory first, the files by name
C13_Witness ==
    /\ ListsChildren
    /\ Len(entries) = 3
    /\ entries[1].is_dir /\ entries[1].name = nmA
    /\ ~entries[2].is_dir /\ entries[2].name = nmAB
    /\ ~entries[3].is_dir /\ entries[3].name = nmB

\* the path names a directory of the tree that may be read
Enumerable(path) ==
    /\ FsLookup(path).some
    /\ FsLookup(path).val \in FsDirs \ FsUnreadable

\* C14: a browse request is always answered with success; for a non-empty
\* path that does not resolve, or resolves to something that cannot be
\* enumerated (missing, not a directory, permission denied), the entry
\* sequence is empty.
C14_ListingNeverFails ==
    req.kind = "browse" =>
        /\ resp = [status |-> 200, body |-> "json"]
        /\ BrowsePath # <<>> =>
               LET rp == resolve_path(shared_folders, req.path)
               IN  (~rp.some \/ ~Enumerable(rp.val)) => entries = <<>>

\* C14 witness: the listing of a directory that exists, has a child and
\* cannot be read is the empty success
C14_Witness ==
    /\ req.kind = "browse"
    /\ real_path.some
    /\ FsLookup(real_path.val) = Some(<<nmT, nmA, nmA>>)
    /\ resp.status = 200
    /\ entries = <<>>

\* the names of the immediate children of a directory node that do not
\* start with "."
VisibleChildren(node) ==
    { m[Len(m)] : m \in { k \in FsNodes : /\ Len(k) = Len(node) + 1
                                          /\ SubSeq(k, 1, Len(node)) = node
                                          /\ k[Len(k)][1] # "." } }

\* C15: the listing of a readable directory D has exactly one entry per
\* immediate child of D whose name does not start with "." and no other
\* entry; an entry's path is the trimmed request path, "/", the child's
\* name; is_dir tells whether the child is a directory and size is present
\* only for a child that is not.
C15_ChildListing ==
    ListsChildren =>
        LET D == FsLookup(real_path.val).val
        IN  /\ Len(entries) = Cardinality(VisibleChildren(D))
            /\ { entries[i].name : i \in 1..Len(entries) } = VisibleChildren(D)
            /\ \A i \in 1..Len(entries) :
                   /\ entries[i].path = BrowsePath \o <<"/">> \o entries[i].name
                   /\ entries[i].is_dir = (Append(D, entries[i].name) \in FsDirs)
                   /\ entries[i].size.some => ~entries[i].is_dir
                   /\ entries[i].size.some
                          => Append(D, entries[i].name) \in FsFiles

\* C15 witness: the listing of a shared directory with a subdirectory (with
\* a file of its own), a file and a hidden file has the two visible entries
C15_Witness ==
    /\ ListsChildren
    /\ req.path = <<"a", "/">>
    /\ FsLookup(real_path.val).val = <<nmS, nmA>>
    /\ Len(entries) = 2
    /\ entries[1] = [name |-> nmA, path |-> <<"a", "/", "a">>, is_dir |-> TRUE,
                     size |-> None]
    /\ entries[2].name = nmB /\ entries[2].size.some

\* what the root listing is to show of entry e, and of the shared root r
ShownOf(e) == [name |-> e.name, path |-> e.path, is_dir |-> e.is_dir]

ShownOfRoot(r) ==
    [ name |-> FileName(r).val, path |-> FileName(r).val,
      is_dir |-> (FsLookup(r).some /\ FsLookup(r).val \in FsDirs) ]

\* C16: for an empty or "/" browse path the response has exactly one entry
\* per configured shared root, as many entries as roots, each with name and
\* path equal to the root's share name and is_dir telling whether the root
\* is a directory; size is present only for a root that is a regular file.
C16_RootListing ==
    (req.kind = "browse" /\ BrowsePath = <<>>) =>
        /\ Len(entries) = Len(shared_folders)
        /\ SameBag([i \in 1..Len(entries) |-> ShownOf(entries[i])],
                   [k \in 1..Len(shared_folders) |-> ShownOfRoot(shared_folders[k])])
        /\ \A i \in 1..Len(entries) :
               entries[i].size.some =>
                   \E k \in 1..Len(shared_folders) :
                       /\ ShownOfRoot(shared_folders[k]) = ShownOf(entries[i])
                       /\ FsLookup(shared_folders[k]).val \in FsFiles

\* the roots whose share name matches the trimmed path
Matching(folders, rel) ==
    { i \in 1..Len(folders) : NameMatches(folders[i], rel) }

\* C17: when several shared roots match a relative path, resolve_path
\* returns what the matching root with the smallest index gives (the root,
\* or the root joined with the suffix), and the roots after that one do not
\* change the result.
C17_FirstMatchWins ==
    req.kind = "resolved" =>
        LET rel == TrimMatches(req.path)
            M == Matching(shared_folders, rel)
        IN  (rel # <<>> /\ Cardinality(M) >= 2) =>
                /\ real_path = Through(shared_folders[Min(M)], rel)
                /\ real_path = resolve_path(SubSeq(shared_folders, 1, Min(M)),
                                            req.path)

\* C18: no handler performs a filesystem operation (is_dir, is_file,
\* metadata, exists, read_dir, open) while it holds the shared-root mutex:
\* the lock covers the in-memory lookup only.
C18_NoFsUnderLock ==
    \A i \in 1..Len(fsops) : ~fsops[i].locked

\* the phase of an archive job: 0 no job, 1 Created and Traversing (Writing
\* included), 2 Finalizing, 3 Closed
Phase(t) ==
    CASE t.pc = "none" -> 0
      [] t.pc \in {"item", "pop", "next", "header", "copy"} -> 1
      [] t.pc = "close" -> 2
      [] t.pc = "done" -> 3

\* the central directory records of a stream
CdCount(stream) == Len(SelectSeq(stream, LAMBDA r : r[1] = "cd"))

\* C19, in every state: the write end is open up to Finalizing and closed
\* in Closed; no central directory is in the stream before Closed and at
\* most one after
C19_State ==
    /\ Phase(task) \in {1, 2} =>
           pipe.writer = "open" /\ CdCount(received \o pipe.buf) = 0
    /\ Phase(task) = 3 =>
           /\ pipe.writer = "closed"
           /\ CdCount(received \o pipe.buf) <= 1
           /\ LfhNames(pipe.buf) = <<>> \/ Last(pipe.buf)[1] = "cd"
           /\ open_files = {}

\* C19, in every step: a job is created in phase 1 with nothing read,
\* opened or written; its phase never decreases; from Finalizing on no entry
\* is written, the one write being the central directory of the step to
\* Closed; Closed is left only when the finished job is cleaned up
C19_Step ==
    /\ (Phase(task) = 0 /\ Phase(task') # 0) =>
           /\ Phase(task') = 1
           /\ task'.reads = 0 /\ task'.opens = 0 /\ ghost'.written = 0
           /\ pipe' = NewPipe
    /\ Phase(task) # 0 =>
           \/ Phase(task) = 3 /\ task' = NoTask
           \/ /\ Phase(task') >= Phase(task)
              /\ Phase(task') <= Phase(task) + 1
              /\ Phase(task) = 3 => task' = task
              /\ Phase(task) = 2 =>
                     /\ Phase(task') = 3 \/ task' = task
                     /\ ghost'.written # ghost.written
                            => pipe'.buf = Append(pipe.buf, <<"cd", <<>>>>)
              /\ Phase(task) >= 2 =>
                     /\ task'.reads = task.reads
                     /\ task'.opens = task.opens

\* C19: an archive job only moves forward through Created, Traversing (with
\* Writing), Finalizing and Closed: no step returns to an earlier phase, no
\* entry is written once finalization has started, the archive is finalized
\* once, and Closed is terminal.
C19_JobStateMachine == [](C19_State) /\ [][C19_Step]_vars

\* C19 witness: a selection job is Closed after two entries and the one
\* central directory, all read by the consumer
C19_Witness ==
    /\ Phase(task) = 3
    /\ task.form = "selection"
    /\ pipe.reader = "eof"
    /\ Len(LfhNames(received)) = 2
    /\ CdCount(received) = 1

\* C20: a directory that cannot be read contributes no entry for its
\* subtree, a file that cannot be opened contributes no entry, and the job
\* goes on: once the consumer has read to the end of the stream, the
\* archive of a folder, and the archive of a selection of directories, has
\* exactly one entry for every file that can be opened and is reached
\* through readable directories, and ends with the central directory.
C20_BestEffortTraversal ==
    (pipe.reader = "eof" /\ task.form \in {"folder", "selection"}) =>
        LET names == LfhNames(received)
        IN  /\ Last(received) = <<"cd", <<>>>>
            /\ \A i \in 1..Len(names) :
                   received[2 * i - 1] = <<"lfh", names[i]>>
                   /\ received[2 * i] = <<"data", names[i]>>
            /\ (task.form = "folder" /\ FsLookup(real_path.val).val # <<>>) =>
                   LET target == FsLookup(real_path.val).val
                   IN  /\ Len(names) = Cardinality(ReachFiles(target))
                       /\ { Components(names[i]) : i \in 1..Len(names) }
                              = { SubSeq(f, Len(target), Len(f)) :
                                     f \in ReachFiles(target) }
            /\ (task.form = "selection" /\ ghost.dirsel) =>
                   SameBag(names, ghost.reach)

\* C20 witness: a selected directory with a file that cannot be opened, a
\* subdirectory that cannot be read and one more file gave an archive of
\* that one file, finalized and read to the end
C20_Witness ==
    /\ pipe.reader = "eof"
    /\ task.form = "selection"
    /\ ghost.dirsel
    /\ task.full_path = <<"/", "t", "/", "a">>
    /\ task.reads = 2
    /\ task.opens = 2
    /\ received = << <<"lfh", <<"a", "/", "a", "b">>>>,
                     <<"data", <<"a", "/", "a", "b">>>>, <<"cd", <<>>>> >>

\* the directory the traversal under way, or the last one, started from
TraversalRoot == IF task.form = "folder" THEN real_path.val ELSE task.full_path

\* a traversal has run to its end
WalkOver ==
    /\ task.pc \in {"item", "close", "done"}
    /\ TraversalRoot # <<>>

\* the directories of the tree at a node, the node included
DirsAt(node) == ({node} \cup Below(node)) \cap FsDirs

\* the directories and the files at a node that are found through readable
\* directories only
WalkDirs(node) ==
    { d \in DirsAt(node) :
        \A n \in Len(node)..(Len(d) - 1) : SubSeq(d, 1, n) \notin FsUnreadable }

WalkFiles(node) ==
    { f \in FilesBelow(node) :
        \A n \in Len(node)..(Len(f) - 1) : SubSeq(f, 1, n) \notin FsUnreadable }

\* stack.push(path) of a directory found as a child of a popped directory
PushOfChild ==
    (task.pc = "next" /\ Len(task'.stack) > Len(task.stack)) =>
        LET node == FsLookup(Last(task'.stack)).val
        IN  /\ task'.stack = Append(task.stack, Last(task'.stack))
            /\ node \in FsDirs
            /\ node # <<>>
            /\ Front(node) \in ghost.popped

\* C21 as stated: the traversal pops each directory of the tree at the
\* target exactly once, visits each file of the tree exactly once and ends
\* with an empty stack; a directory is pushed only as a child of a
\* directory already popped.
C21_TraversalExhaustive ==
    /\ [](/\ ~ghost.twice
          /\ WalkOver =>
                /\ task.stack = <<>>
                /\ ghost.popped = DirsAt(FsLookup(TraversalRoot).val)
                /\ ghost.visited = FilesBelow(FsLookup(TraversalRoot).val))
    /\ [][PushOfChild]_vars

\* C21 amended: the traversal ends with an empty stack, having popped
\* exactly once each directory of the tree that is found through readable
\* directories (the target, taken from the initial stack, included) and
\* visited exactly once each file whose directories up to the target can
\* all be read; what lies below a directory that cannot be read is neither
\* popped nor visited; a directory is pushed only as a child of a directory
\* already popped.
C21_TraversalOfReadable ==
    /\ [](/\ ~ghost.twice
          /\ task.form \in {"folder", "selection"} /\ TraversalRoot # <<>> =>
                /\ ghost.popped \subseteq WalkDirs(FsLookup(TraversalRoot).val)
                /\ ghost.visited \subseteq WalkFiles(FsLookup(TraversalRoot).val)
          /\ WalkOver =>
                /\ task.stack = <<>>
                /\ task.dir = {}
                /\ ghost.popped = WalkDirs(FsLookup(TraversalRoot).val)
                /\ ghost.visited = WalkFiles(FsLookup(TraversalRoot).val))
    /\ [][PushOfChild]_vars

\* C21 witness: the traversal of a directory with a readable and an
\* unreadable part is over: both directories popped, the two files of the
\* readable part visited, the file below the unreadable directory not
C21_Witness ==
    /\ WalkOver
    /\ task.pc = "done"
    /\ task.form = "folder"
    /\ ghost.popped = { <<nmT, nmA>>, <<nmT, nmA, nmA>> }
    /\ ghost.visited = { <<nmT, nmA, nmAB>>, <<nmT, nmA, nmB>> }
    /\ task.reads = 2

\* the member names the archive of one request has when its job is the
\* only one running: a file per file that can be opened and is found
\* through directories that can be read
AloneNames(folders, rq) ==
    IF rq.kind = "zip_folder"
    THEN LET r == ZipFolderResult(folders, rq.path)
         IN  IF r.status # 200 THEN {}
             ELSE LET node == FsLookup(r.real_path.val).val
                  IN  { JoinSegs(SubSeq(f, Len(node), Len(f))) :
                        f \in ReachFiles(node) }
    ELSE IF DirItem(folders, rq.path)
    THEN Range(ReachNames(folders, rq.path))
    ELSE IF FileItem(folders, rq.path)
            /\ CanOpen(resolve_path(folders, rq.path).val)
    THEN { rq.path }
    ELSE {}

\* the consumer of job j has read its stream to the end
ConcEnded(j) == conc.pipe[j].reader = "eof"

\* what one job owns
Owned(c, j) == << c.req[j], c.task[j], c.pipe[j], c.received[j] >>

\* a step touches what one job owns and nothing of any other job
OneJobStep ==
    \E j \in JobIds : \A k \in JobIds \ {j} : Owned(conc', k) = Owned(conc, k)

\* C22: with several archive jobs running side by side over an unchanged
\* filesystem, a consumer that reads its stream to the end has received
\* exactly the entries of its own request, each once with its data, and
\* then the central directory, as if its job ran alone; and every step of
\* the system changes the stack, the task state, the pipe and the received
\* stream of one job only.
C22_Isolation ==
    /\ [](\A j \in JobIds :
            ConcEnded(j) =>
              LET got == conc.received[j]
                  names == LfhNames(got)
              IN  /\ Range(names) = AloneNames(shared_folders, conc.req[j])
                  /\ \A x \in Range(names) : Count(names, x) = 1
                  /\ \A x \in Range(names) : Count(got, <<"data", x>>) = 1
                  /\ got # <<>> /\ Last(got) = <<"cd", <<>>>>
                  /\ Count(got, <<"cd", <<>>>>) = 1
                  /\ conc.task[j].pc = "done")
    /\ [][OneJobStep]_vars

\* C22 witness: a folder job and a selection job ran side by side; the
\* consumer of the first has read its three entries to the end while the
\* second job, with an entry already delivered, is still writing
C22_Witness ==
    /\ shared_folders = << <<SLASH, "s", SLASH, "a">> >>
    /\ conc.req[1] = [kind |-> "zip_folder", path |-> nmA]
    /\ conc.req[2] = [kind |-> "zip_selection", path |-> nmA]
    /\ ConcEnded(1)
    /\ Len(LfhNames(conc.received[1])) = 3
    /\ conc.task[2].pc = "copy"
    /\ Len(LfhNames(conc.received[2])) >= 1
    /\ conc.pipe[2].reader = "open"

\* C23: every entry of a listing can be navigated to.  An entry of the
\* listing of a path p resolves to what p resolves to, joined with the
\* entry's name; an entry of the root listing resolves to a shared root
\* whose share name is the entry's name.
C23_ListingRoundTrip ==
    req.kind = "browse" =>
      LET p == TrimMatches(req.path)
      IN  \A i \in DOMAIN entries :
            LET e == entries[i]
                r == resolve_path(shared_folders, e.path)
            IN  IF p = <<>>
                THEN /\ r.some
                     /\ r.val \in Range(shared_folders)
                     /\ FileName(r.val) = Some(e.name)
                ELSE /\ r.some
                     /\ resolve_path(shared_folders, p).some
                     /\ r.val = Join(resolve_path(shared_folders, p).val, e.name)

\* the path is the share name of a shared root that is a directory
NamesDirRoot(folders, path) ==
    \E i \in DOMAIN folders :
        FileName(folders[i]) = Some(path) /\ PathIsDir(folders[i])

\* the request of job j is over on the consumer's side: the stream was read
\* to the end, or the handler answered with an error and no archive
Answered(j) ==
    \/ ConcEnded(j)
    \/ conc.req[j] # NoReq /\ conc.task[j] = NoTask

\* the member names job j's consumer has
MemberNames(j) == Range(LfhNames(conc.received[j]))

\* a folder request and a selection request of the one path
SamePathForms(j, k) ==
    /\ conc.req[j].kind = "zip_folder"
    /\ conc.req[k].kind = "zip_selection"
    /\ conc.req[j].path = conc.req[k].path
    /\ Answered(j)
    /\ Answered(k)

\* C24: for a path that is the share name of a shared root that is a
\* directory, the folder form and the selection of that one path deliver
\* the same set of member names.
C24_FormsAgree ==
    \A j, k \in JobIds :
        /\ SamePathForms(j, k)
        /\ NamesDirRoot(shared_folders, conc.req[j].path)
        => MemberNames(j) = MemberNames(k)

\* C24 amended: the same, for a path that resolves to a directory, which
\* is the first shared root of that share name being a directory.
C24_FormsAgreeOnResolved ==
    \A j, k \in JobIds :
        /\ SamePathForms(j, k)
        /\ NamesDirRoot(shared_folders, conc.req[j].path)
        /\ resolve_path(shared_folders, conc.req[j].path).some
        /\ PathIsDir(resolve_path(shared_folders, conc.req[j].path).val)
        => MemberNames(j) = MemberNames(k)

\* C24 witness: both forms of the request for the shared directory /s/a
\* were read to the end, with its three files in each archive
C24_Witness ==
    /\ shared_folders # <<>>
    /\ shared_folders[1] = <<SLASH, "s", SLASH, "a">>
    /\ SamePathForms(1, 2)
    /\ conc.req[1].path = nmA
    /\ ConcEnded(1) /\ ConcEnded(2)
    /\ Cardinality(MemberNames(1)) = 3
    /\ MemberNames(2) = MemberNames(1)

\* server task i holds a listener and serves the list it was started with
Listening(i) == svc.inst[i].st \in {"listening", "serving"}

\* C25: a start_server_cmd issued while a server is running has returned
\* Ok: from then on, eventually the server it created is listening with
\* the new list of shared roots and the service state holds its sender
\* (unless a later command has taken the sender out of the state).
C25_RestartTakesEffect ==
    \A i \in ServerIds :
        (svc.inst[i].restart /\ svc.inst[i].st = "spawned")
          ~> (\/ Listening(i) /\ svc.shutdown_tx = i
              \/ svc.shutdown_tx # i)

\* server task i has ended
Ended(i) == svc.inst[i].st \in {"stopped", "failed"}

\* a step that is a stop_server_cmd finding no server recorded
StopOnNone ==
    /\ svc.shutdown_tx = 0
    /\ svc'.last.seq # svc.last.seq
    /\ svc'.last.cmd = "stop_server_cmd"

C27_NoOrphanServer ==
    /\ svc.shutdown_tx \in {0, svc.n}
    /\ \A i \in ServerIds : i < svc.n => svc.inst[i].sent
    /\ svc.n > 0 /\ svc.shutdown_tx = 0 => svc.inst[svc.n].sent
    /\ \A i \in ServerIds : i > svc.n => svc.inst[i] = NoServer

\* C27 witness: three servers were started one after the other; the first
\* two were sent the signal, the third serves and the state holds its
\* sender
C27_Witness ==
    /\ svc.n = 3
    /\ svc.shutdown_tx = 3
    /\ svc.inst[1].sent /\ svc.inst[2].sent
    /\ svc.inst[3].st = "serving"
    /\ ~svc.inst[3].sent

=============================================================================
